---- MODULE Spec2Model ----
(***************************************************************************)
(* libbtc-go: assembly, funding, fee deduction, signing, verification and  *)
(* the submit-and-poll loop of account.SendTransaction,                    *)
(* account.BuildTransaction and account.Transfer.                          *)
(*                                                                         *)
(* One call is modelled per behaviour (a call runs on one goroutine and    *)
(* owns its tx).  The call is cut into steps at the places where it talks  *)
(* to the chain client, the fee oracle or the clock; everything between    *)
(* two such places is one action.                                          *)
(***************************************************************************)
EXTENDS Integers, Sequences, FiniteSets, TLC

(* ---- program constants ------------------------------------------------ *)
BitcoinDust == 600
MaxBitcoinFee == 10000
FallbackRate == 30
PollAttempts == 60
PollInterval == 5
TxVersion == 2

(* ---- bounds of the model ---------------------------------------------- *)
MaxUTXOs == 3
MaxOuts == 2
MaxRounds == 2

(* ---- input alphabets --------------------------------------------------- *)
\* Locking scripts as byte strings.  The chain client only reports outputs
\* that pay the queried address, so a reported script is never empty.
Scripts == {<<1>>, <<2>>}
Amounts == {10000, 20000}
\* The unspent outputs the address can hold: two amounts under the first
\* script, one under the second.
UTXOKinds == (Amounts \X {<<1>>}) \cup ({10000} \X (Scripts \ {<<1>>}))
OutValues == {500, 600, 10000}
Networks == {"mainnet", "testnet3", "regtest"}
Speeds == {"Nil", "Slow", "Standard", "Fast"}
NoOracle == [ok |-> FALSE, fastestFee |-> 0, halfHourFee |-> 0, hourFee |-> 0]
OracleResponses ==
  {NoOracle, [ok |-> TRUE, fastestFee |-> 50, halfHourFee |-> 30, hourFee |-> 10]}

\* The UTXO lists GetUTXOs can report: entry k is identified by its outpoint k.
ChainsOfLen(n) ==
  {[k \in 1..n |-> [TxHash |-> k, Amount |-> f[k][1], ScriptPubKey |-> f[k][2]]] :
     f \in [1..n -> UTXOKinds]}
Chains == UNION {ChainsOfLen(n) : n \in 0..MaxUTXOs}
\* The submit loop does not depend on what was funded: the specifications of
\* the whole call start from one funded address.
FairChain == <<[TxHash |-> 1, Amount |-> 20000, ScriptPubKey |-> <<1>>]>>
SendChains == {FairChain}

\* The outputs a caller's pre-condition can add to the empty transaction.
OutsOfLen(n) ==
  {[k \in 1..n |-> [Value |-> f[k], PkScript |-> "dest"]] : f \in [1..n -> OutValues]}
OutLists == UNION {OutsOfLen(n) : n \in 0..MaxOuts}
NoPreCond == [given |-> FALSE, ret |-> TRUE, outs |-> <<>>, ins |-> 0]
PreConds ==
  {NoPreCond, [given |-> TRUE, ret |-> FALSE, outs |-> <<>>, ins |-> 0]}
    \cup {[given |-> TRUE, ret |-> TRUE, outs |-> o, ins |-> 0] : o \in OutLists}

EmptyTx == [Version |-> TxVersion, TxIn |-> <<>>, TxOut |-> <<>>]
NoCall ==
  [op |-> "none", contract |-> FALSE, preCond |-> NoPreCond, sendAll |-> FALSE,
   f |-> FALSE, postCond |-> FALSE]
NoResult == [status |-> "running", err |-> "nil", fee |-> 0, required |-> 0, available |-> 0]
\* History of the call: what it has done so far.  clientCalls counts the chain
\* client queries made inside SendTransaction/BuildTransaction, wrapperCalls
\* those Transfer makes before it calls SendTransaction.
NoHist ==
  [preCondCalls |-> 0, preCondSaw |-> EmptyTx, clientCalls |-> 0,
   wrapperCalls |-> 0, oracleCalls |-> 0, signs |-> 0, verifies |-> 0,
   publishCalls |-> 0, publishes |-> 0, evals |-> 0, falseEvals |-> 0, evalsInRound |-> 0,
   clock |-> 0, stages |-> <<>>, utxos |-> <<>>, scanned |-> FALSE,
   engine |-> "none", trueEvals |-> 0,
   size |-> 0, rate |-> <<0, 0, 0, 0>>, oracleFailed |-> FALSE,
   contractUtxos |-> <<>>, funded |-> <<>>, sigs |-> 0, rates |-> <<>>,
   attempts |-> <<>>, waits |-> <<>>]

\* txbuilder.go:38-46: the fields of a transaction object; none is built yet.
NoTransaction ==
  [sent |-> <<0, 0, 0, 0>>, msgTx |-> EmptyTx, hashes |-> <<>>,
   contract |-> FALSE, mwIns |-> 0]

VARIABLES
  network,         \* client.NetworkParams(): fixed for the client's lifetime
  chain,           \* the UTXOs the chain client holds for the funding address
  effect,          \* what the post-condition observes on the chain
  ctxDone,         \* ctx.Done() is closed
  call,            \* the arguments of the running call
  pc,              \* position of the call
  msgTx,           \* tx.msgTx
  receiveValues,   \* tx.receiveValues
  scriptPublicKey, \* tx.scriptPublicKey
  balance,         \* fund: balance
  txFee,           \* SendTransaction: txFee
  i,               \* SendTransaction: poll loop counter
  result,          \* what the call returned
  hist,            \* history of the call: counters of calls made so far
  transaction,     \* the transaction object TxBuilder.Build returned
  slave,           \* what the calls of SlaveScript and SlaveAddress returned
  duration         \* backoff: duration

vars ==
  <<network, chain, effect, ctxDone, call, pc, msgTx, receiveValues,
    scriptPublicKey, balance, txFee, i, result, hist, transaction, slave,
    duration>>

(* ---- helpers ----------------------------------------------------------- *)
RECURSIVE SumAmounts(_)
SumAmounts(us) ==
  IF Len(us) = 0 THEN 0 ELSE us[1].Amount + SumAmounts(Tail(us))

RECURSIVE SumValues(_)
SumValues(outs) ==
  IF Len(outs) = 0 THEN 0 ELSE outs[1].Value + SumValues(Tail(outs))

\* GetUTXOs(ctx, address, limit, 0): at most limit of the unspent outputs the
\* client holds for the address, in the client's order.
GetUTXOs(utxos, limit) ==
  IF Len(utxos) <= limit THEN utxos ELSE SubSeq(utxos, 1, limit)

\* client.Balance: the sum over everything GetUTXOs reports for the address.
Balance(utxos) == SumAmounts(utxos)

Returned(e, fee) ==
  [status |-> "returned", err |-> e, fee |-> fee, required |-> 0, available |-> 0]

\* client.SerializePublicKey: compressed on mainnet, uncompressed on testnet3,
\* an error on every other network.
SerializePublicKey(net) ==
  CASE net = "mainnet" -> [err |-> "nil", key |-> "compressed"]
    [] net = "testnet3" -> [err |-> "nil", key |-> "uncompressed"]
    [] OTHER -> [err |-> "ErrUnsupportedNetwork", key |-> "none"]

InitWith(chains) ==
  /\ network \in Networks
  /\ chain \in chains
  /\ effect = FALSE
  /\ ctxDone = FALSE
  /\ call = NoCall
  /\ pc = "idle"
  /\ msgTx = EmptyTx
  /\ receiveValues = <<>>
  /\ scriptPublicKey = <<>>
  /\ balance = 0
  /\ txFee = 0
  /\ i = 0
  /\ result = NoResult
  /\ hist = NoHist
  /\ transaction = NoTransaction
  /\ slave = <<>>
  /\ duration = 0

\* The assembly is explored on testnet3; the networks differ only in the
\* length of the serialized public key and in SerializePublicKey's error,
\* which the whole-call specification below covers.
Init == InitWith(Chains) /\ network = "testnet3"

(* ---- the call starts --------------------------------------------------- *)
\* A pre-condition is a caller's closure over the transaction: it may add
\* outputs and inputs of its own, and returns a boolean.
ForeignTxIn == [PreviousOutPoint |-> 0, SignatureScript |-> <<>>]
ApplyPreCond(pre, tx) ==
  [tx EXCEPT !.TxOut = tx.TxOut \o pre.outs,
             !.TxIn = tx.TxIn \o [k \in 1..pre.ins |-> ForeignTxIn]]

\* account.go:195 and 289: preCond != nil && !preCond(tx.msgTx).
PreCondFails_Inverted(pre) == pre.given /\ pre.ret
PreCondFails(pre) == pre.given /\ ~pre.ret

\* account.go:194-211 (SendTransaction) and 288-305 (BuildTransaction):
\* newTx on an empty version-2 transaction, the pre-condition, the funding
\* address.  The closures f and postCond are opaque to the call until it runs
\* them: call.f is bound where estimateSTXSize first runs f, call.postCond
\* where the call enters the submit loop.
Begin(c, h) ==
  LET pre == c.preCond
      tx0 == EmptyTx
      tx1 == IF pre.given THEN ApplyPreCond(pre, tx0) ELSE tx0
      key == SerializePublicKey(network)
  IN /\ call' = c
     /\ msgTx' = tx1
     /\ hist' = [h EXCEPT !.preCondCalls = IF pre.given THEN @ + 1 ELSE @,
                              !.preCondSaw = tx0]
     /\ IF PreCondFails(pre)
          THEN /\ result' = Returned("ErrPreConditionCheckFailed", 0)
               /\ pc' = "done"
          ELSE IF ~c.contract /\ key.err # "nil"
            THEN /\ result' = Returned(key.err, 0)
                 /\ pc' = "done"
            ELSE /\ result' = result
                 /\ pc' = IF c.sendAll THEN "fundAll" ELSE "fund"

SendTransaction ==
  /\ pc = "idle"
  /\ \E contract \in BOOLEAN, pre \in PreConds, sendAll \in BOOLEAN :
       Begin([op |-> "SendTransaction", contract |-> contract, preCond |-> pre,
              sendAll |-> sendAll, f |-> FALSE, postCond |-> FALSE], hist)
  /\ UNCHANGED <<slave, duration, transaction, network, chain, effect, ctxDone, receiveValues,
                 scriptPublicKey, balance, txFee, i>>

BuildTransaction ==
  /\ pc = "idle"
  /\ \E contract \in BOOLEAN, pre \in PreConds, sendAll \in BOOLEAN :
       Begin([op |-> "BuildTransaction", contract |-> contract, preCond |-> pre,
              sendAll |-> sendAll, f |-> FALSE, postCond |-> FALSE], hist)
  /\ UNCHANGED <<slave, duration, transaction, network, chain, effect, ctxDone, receiveValues,
                 scriptPublicKey, balance, txFee, i>>

\* account.go:100-134.  With sendAll the value is replaced by the balance of
\* the account's own address; the pre-condition adds the payment output and
\* returns true.
Transfer ==
  /\ pc = "idle"
  /\ \E value \in OutValues, sendAll \in BOOLEAN, clientOk \in BOOLEAN :
       LET key == SerializePublicKey(network)
           v == IF sendAll THEN Balance(chain) ELSE value
           pre == [given |-> TRUE, ret |-> TRUE,
                   outs |-> <<[Value |-> v, PkScript |-> "dest"]>>, ins |-> 0]
           c == [op |-> "Transfer", contract |-> FALSE, preCond |-> pre,
                 sendAll |-> sendAll, f |-> FALSE, postCond |-> FALSE]
       IN /\ (~sendAll => clientOk)
          /\ IF sendAll /\ key.err # "nil"
               THEN /\ result' = Returned(key.err, 0)
                    /\ pc' = "done"
                    /\ UNCHANGED <<call, msgTx, hist>>
               ELSE IF sendAll /\ ~clientOk
                 THEN /\ result' = Returned("ErrClient", 0)
                      /\ pc' = "done"
                      /\ hist' = [hist EXCEPT !.wrapperCalls = @ + 1]
                      /\ UNCHANGED <<call, msgTx>>
                 ELSE Begin(c, [hist EXCEPT !.wrapperCalls =
                                              IF sendAll THEN @ + 1 ELSE @])
  /\ UNCHANGED <<slave, duration, transaction, network, chain, effect, ctxDone, receiveValues,
                 scriptPublicKey, balance, txFee, i>>

(* ---- funding ----------------------------------------------------------- *)
NewTxIn(j) == [PreviousOutPoint |-> j.TxHash, SignatureScript |-> <<>>]
NewTxOut(v, script) == [Value |-> v, PkScript |-> script]

\* PayToAddrScript(addr) of the funding address: the account's own address,
\* or the script-hash address of the contract.
FundingAddress == IF call.contract THEN "contract" ELSE "account"

\* transaction.go:56: value+MaxBitcoinFee > balance.
InsufficientBalance_NoFee(value, bal) == value > bal
InsufficientBalance(value, bal) == value + MaxBitcoinFee > bal

\* transaction.go:70-76 and 111-117: the UTXO's script differs from the
\* reference script, once there is one.
ScriptDiffers_Never(ref, script) == FALSE
ScriptDiffers(ref, script) == Len(ref) # 0 /\ ref # script

\* transaction.go:84 and 89: value <= -MaxBitcoinFee.
Covered_Strict(value) == value < -MaxBitcoinFee
Covered(value) == value <= -MaxBitcoinFee

\* transaction.go:44-49: the first output below 600, if any.
DustOutputs(tx) == {k \in 1..Len(tx.TxOut) : tx.TxOut[k].Value < 600}

\* transaction.go:34-58: the dust check and the balance check of fund.
FundBalance ==
  /\ pc = "fund"
  /\ LET value == SumValues(msgTx.TxOut)
     IN IF DustOutputs(msgTx) # {}
          THEN /\ result' = Returned("ErrDustOutput", 0)
               /\ pc' = "done"
               /\ UNCHANGED <<balance, hist>>
          ELSE \E clientOk \in BOOLEAN :
                 /\ hist' = [hist EXCEPT !.clientCalls = @ + 1]
                 /\ IF ~clientOk
                      THEN /\ result' = Returned("ErrClient", 0)
                           /\ pc' = "done"
                           /\ UNCHANGED balance
                      ELSE /\ balance' = Balance(chain)
                           /\ IF InsufficientBalance(value, Balance(chain))
                                THEN /\ result' =
                                          [status |-> "returned",
                                           err |-> "ErrInsufficientBalance",
                                           fee |-> 0,
                                           required |-> value + MaxBitcoinFee,
                                           available |-> Balance(chain)]
                                     /\ pc' = "done"
                                ELSE /\ result' = result
                                     /\ pc' = "fund_utxos"
  /\ UNCHANGED <<slave, duration, transaction, network, chain, effect, ctxDone, call, msgTx, receiveValues,
                 scriptPublicKey, txFee, i>>

\* transaction.go:65-87: the selection loop of fund over utxos[k..]; st is
\* the state the loop works on.
RECURSIVE FundLoop(_, _, _)
FundLoop(utxos, k, st) ==
  IF k > Len(utxos) THEN st
  ELSE LET j == utxos[k]
       IN IF ScriptDiffers(st.scriptPublicKey, j.ScriptPubKey)
            THEN FundLoop(utxos, k + 1, st)
            ELSE LET st2 == [scriptPublicKey |->
                               IF Len(st.scriptPublicKey) = 0
                                 THEN j.ScriptPubKey ELSE st.scriptPublicKey,
                             receiveValues |-> Append(st.receiveValues, j.Amount),
                             TxIn |-> Append(st.TxIn, NewTxIn(j)),
                             value |-> st.value - j.Amount]
                 IN IF Covered(st2.value)
                      THEN st2
                      ELSE FundLoop(utxos, k + 1, st2)

\* transaction.go:60-98: the UTXO query, the selection loop and the change
\* output of fund.
FundSelect ==
  /\ pc = "fund_utxos"
  /\ \E clientOk \in BOOLEAN :
       LET utxos == GetUTXOs(chain, 999999)
           st == FundLoop(utxos, 1,
                          [scriptPublicKey |-> scriptPublicKey,
                           receiveValues |-> receiveValues,
                           TxIn |-> msgTx.TxIn,
                           value |-> SumValues(msgTx.TxOut)])
       IN IF ~clientOk
            THEN /\ result' = Returned("ErrClient", 0)
                 /\ pc' = "done"
                 /\ hist' = [hist EXCEPT !.clientCalls = @ + 1]
                 /\ UNCHANGED <<msgTx, receiveValues, scriptPublicKey>>
            ELSE /\ scriptPublicKey' = st.scriptPublicKey
                 /\ receiveValues' = st.receiveValues
                 /\ IF Covered(st.value)
                      THEN /\ msgTx' = [msgTx EXCEPT
                                          !.TxIn = st.TxIn,
                                          !.TxOut = Append(@, NewTxOut(-st.value, FundingAddress))]
                           /\ result' = result
                           /\ pc' = "estimate"
                           /\ hist' = [hist EXCEPT !.clientCalls = @ + 1,
                                                   !.utxos = utxos,
                                                   !.scanned = TRUE,
                                                   !.stages = Append(@, "fund")]
                      ELSE /\ msgTx' = [msgTx EXCEPT !.TxIn = st.TxIn]
                           /\ result' = Returned("ErrMismatchedPubKeys", 0)
                           /\ pc' = "done"
                           /\ hist' = [hist EXCEPT !.clientCalls = @ + 1,
                                                   !.utxos = utxos,
                                                   !.scanned = TRUE]
  /\ UNCHANGED <<slave, duration, transaction, network, chain, effect, ctxDone, call, balance, txFee, i>>

\* transaction.go:106-124: the loop of fundAll over utxos[k..].
RECURSIVE FundAllLoop(_, _, _)
FundAllLoop(utxos, k, st) ==
  IF k > Len(utxos) THEN st
  ELSE LET j == utxos[k]
       IN IF ScriptDiffers(st.scriptPublicKey, j.ScriptPubKey)
            THEN FundAllLoop(utxos, k + 1, st)
            ELSE FundAllLoop(utxos, k + 1,
                   [scriptPublicKey |->
                      IF Len(st.scriptPublicKey) = 0
                        THEN j.ScriptPubKey ELSE st.scriptPublicKey,
                    receiveValues |-> Append(st.receiveValues, j.Amount),
                    TxIn |-> Append(st.TxIn, NewTxIn(j))])

\* transaction.go:101-126.
FundAll ==
  /\ pc = "fundAll"
  /\ \E clientOk \in BOOLEAN :
       LET utxos == GetUTXOs(chain, 1000)
           st == FundAllLoop(utxos, 1,
                             [scriptPublicKey |-> scriptPublicKey,
                              receiveValues |-> receiveValues,
                              TxIn |-> msgTx.TxIn])
       IN IF ~clientOk
            THEN /\ result' = Returned("ErrClient", 0)
                 /\ pc' = "done"
                 /\ hist' = [hist EXCEPT !.clientCalls = @ + 1]
                 /\ UNCHANGED <<msgTx, receiveValues, scriptPublicKey>>
            ELSE /\ scriptPublicKey' = st.scriptPublicKey
                 /\ receiveValues' = st.receiveValues
                 /\ msgTx' = [msgTx EXCEPT !.TxIn = st.TxIn]
                 /\ result' = result
                 /\ pc' = "estimate"
                 /\ hist' = [hist EXCEPT !.clientCalls = @ + 1,
                                         !.utxos = utxos,
                                         !.scanned = TRUE,
                                         !.stages = Append(@, "fund")]
  /\ UNCHANGED <<slave, duration, transaction, network, chain, effect, ctxDone, call, balance, txFee, i>>

(* ---- size estimate and fee ---------------------------------------------- *)
\* Lengths in bytes of what the btcd library serializes: a DER signature with
\* its sighash-type byte; the caller's secret and contract have the lengths
\* the model gives them.
SigLen == 72
SecretLen == 32
ContractLen == 97
PubKeyLen(key) == IF key = "compressed" THEN 33 ELSE 65
ItemLen(item, key) ==
  CASE item = "sig" -> SigLen
    [] item = "pubkey" -> PubKeyLen(key)
    [] item = "secret" -> SecretLen
    [] OTHER -> ContractLen
PkScriptLen(script) == IF script = "contract" THEN 23 ELSE 25
\* ScriptBuilder.AddData: a one-byte push opcode up to 75 bytes, OP_PUSHDATA1
\* with a length byte above.
PushSize(n) == IF n <= 75 THEN 1 + n ELSE 2 + n
VarIntSize(n) == IF n < 253 THEN 1 ELSE 3

\* transaction.go:147-160 (sign) and 185-198 (estimateSTXSize): the signature
\* script of one input: signature, public key, what f pushes, the contract.
SigScript_ContractFirst(f, contract) ==
  <<"sig", "pubkey">> \o (IF contract THEN <<"contract">> ELSE <<>>)
                      \o (IF f THEN <<"secret">> ELSE <<>>)
SigScript(f, contract) ==
  <<"sig", "pubkey">> \o (IF f THEN <<"secret">> ELSE <<>>)
                      \o (IF contract THEN <<"contract">> ELSE <<>>)

RECURSIVE ScriptSize(_, _)
ScriptSize(script, key) ==
  IF Len(script) = 0 THEN 0
  ELSE PushSize(ItemLen(script[1], key)) + ScriptSize(Tail(script), key)

RECURSIVE InputsSize(_, _)
InputsSize(ins, key) ==
  IF Len(ins) = 0 THEN 0
  ELSE LET n == ScriptSize(ins[1].SignatureScript, key)
       IN 32 + 4 + VarIntSize(n) + n + 4 + InputsSize(Tail(ins), key)

RECURSIVE OutputsSize(_)
OutputsSize(outs) ==
  IF Len(outs) = 0 THEN 0
  ELSE LET n == PkScriptLen(outs[1].PkScript)
       IN 8 + VarIntSize(n) + n + OutputsSize(Tail(outs))

\* wire.MsgTx.SerializeSize of a transaction without witness data.
SerializeSize(tx, key) ==
  4 + VarIntSize(Len(tx.TxIn)) + InputsSize(tx.TxIn, key)
    + VarIntSize(Len(tx.TxOut)) + OutputsSize(tx.TxOut) + 4

\* transaction.go:139-161: every input gets the signature script.
SignAll(tx, f, contract) ==
  [tx EXCEPT !.TxIn = [k \in 1..Len(tx.TxIn) |->
                         [tx.TxIn[k] EXCEPT !.SignatureScript = SigScript(f, contract)]]]

\* transaction.go:165-201: the size of a signed copy of the transaction.
estimateSTXSize(tx, f, contract, key) ==
  SerializeSize(SignAll(tx, f, contract), key)

\* account.go:368-406: the rate of the tier out of the oracle's answer.
SuggestedTxRate(txSpeed, oracle) ==
  IF ~oracle.ok THEN [err |-> "ErrOracle", rate |-> 0]
  ELSE CASE txSpeed = "Slow" -> [err |-> "nil", rate |-> oracle.fastestFee]
         [] txSpeed = "Standard" -> [err |-> "nil", rate |-> oracle.halfHourFee]
         [] txSpeed = "Fast" -> [err |-> "nil", rate |-> oracle.hourFee]
         [] OTHER -> [err |-> "ErrInvalidSpeed", rate |-> 0]

\* int64 values are four 16-bit words, least significant first, in two's
\* complement; the model's integers hold the values below 2^31 in magnitude.
Word == 65536
ToInt64(n) == <<n % Word, n \div Word, 0, 0>>
FromInt64(x) ==
  IF x[3] = 0 /\ x[4] = 0 THEN x[1] + x[2] * Word
  ELSE (x[2] - Word) * Word + x[1]
IsNegative(x) == x[4] >= Word \div 2

\* int64(size) * rate: Go's product wraps modulo 2^64.  size is far below
\* 2^15, so every partial product fits.
MulInt64(n, x) ==
  LET t1 == n * x[1]
      t2 == n * x[2] + t1 \div Word
      t3 == n * x[3] + t2 \div Word
      t4 == n * x[4] + t3 \div Word
  IN <<t1 % Word, t2 % Word, t3 % Word, t4 % Word>>

\* x > n as signed 64-bit integers, for 0 <= n < 2^16.
GreaterThan(x, n) ==
  /\ ~IsNegative(x)
  /\ (x[4] > 0 \/ x[3] > 0 \/ x[2] > 0 \/ x[1] > n)

\* Go's int64 addition, negation and subtraction (modulo 2^64) and signed
\* comparison.
Add64(x, y) ==
  LET t1 == x[1] + y[1]
      t2 == x[2] + y[2] + t1 \div Word
      t3 == x[3] + y[3] + t2 \div Word
      t4 == x[4] + y[4] + t3 \div Word
  IN <<t1 % Word, t2 % Word, t3 % Word, t4 % Word>>
Neg64(x) ==
  Add64(<<Word - 1 - x[1], Word - 1 - x[2], Word - 1 - x[3], Word - 1 - x[4]>>,
        <<1, 0, 0, 0>>)
Sub64(x, y) == Add64(x, Neg64(y))
Int64Of(n) == IF n >= 0 THEN ToInt64(n) ELSE Neg64(ToInt64(-n))
Less64(x, y) ==
  IF IsNegative(x) # IsNegative(y) THEN IsNegative(x)
  ELSE \/ x[4] < y[4]
       \/ x[4] = y[4] /\ x[3] < y[3]
       \/ x[4] = y[4] /\ x[3] = y[3] /\ x[2] < y[2]
       \/ x[4] = y[4] /\ x[3] = y[3] /\ x[2] = y[2] /\ x[1] < y[1]
MaxInt64 == <<Word - 1, Word - 1, Word - 1, Word \div 2 - 1>>

\* account.go:237-240 and 331-334: the absolute fee; rate is an int64.
Fee(size, rate) ==
  LET txFee0 == MulInt64(size, rate)
  IN IF GreaterThan(txFee0, MaxBitcoinFee - BitcoinDust)
       THEN MaxBitcoinFee ELSE FromInt64(txFee0)

\* account.go:241: the fee comes out of the last output.
DeductFee_First(tx, fee) ==
  [tx EXCEPT !.TxOut[1].Value = @ - fee]
DeductFee(tx, fee) ==
  [tx EXCEPT !.TxOut[Len(tx.TxOut)].Value = @ - fee]

\* account.go:232-235 and 326-329: the rate, or 30 when SuggestedTxRate
\* returned an error.
RateOrFallback_NoFallback(sug) == sug.rate
RateOrFallback(sug) == IF sug.err # "nil" THEN FallbackRate ELSE sug.rate

\* What the caller's f pushes (a secret, or nothing) and whether a
\* post-condition is given; Transfer passes nil for both (account.go:133).
FArgs(op) == IF op = "Transfer" THEN {FALSE} ELSE BOOLEAN
PostCondArgs(op) == IF op = "SendTransaction" THEN BOOLEAN ELSE {FALSE}

\* account.go:226-241 (SendTransaction) and 320-335 (BuildTransaction).
EstimateFee ==
  /\ pc = "estimate"
  /\ \E speed \in Speeds, oracle \in OracleResponses, f \in FArgs(call.op) :
       LET key == SerializePublicKey(network)
           size == estimateSTXSize(msgTx, f, call.contract, key.key)
           sug == SuggestedTxRate(speed, oracle)
           rate == RateOrFallback(sug)
           fee == Fee(size, ToInt64(rate))
       IN IF key.err # "nil"
            THEN /\ result' = Returned(key.err, 0)
                 /\ pc' = "done"
                 /\ UNCHANGED <<call, msgTx, txFee, hist>>
            ELSE IF Len(msgTx.TxOut) = 0
              THEN \* index out of range: the call panics
                   /\ result' = [Returned("index out of range", 0) EXCEPT
                                   !.status = "panic"]
                   /\ pc' = "done"
                   /\ call' = [call EXCEPT !.f = f]
                   /\ txFee' = fee
                   /\ hist' = [hist EXCEPT !.oracleCalls = @ + 1,
                                           !.size = size,
                                           !.rate = ToInt64(rate),
                                           !.oracleFailed = ~oracle.ok,
                                           !.stages = Append(@, "estimate")]
                   /\ UNCHANGED msgTx
              ELSE /\ call' = [call EXCEPT !.f = f]
                   /\ txFee' = fee
                   /\ msgTx' = DeductFee(msgTx, fee)
                   /\ result' = result
                   /\ pc' = "sign"
                   /\ hist' = [hist EXCEPT !.oracleCalls = @ + 1,
                                           !.size = size,
                                           !.rate = ToInt64(rate),
                                           !.oracleFailed = ~oracle.ok,
                                           !.stages = @ \o <<"estimate", "fee">>]
  /\ UNCHANGED <<slave, duration, transaction, network, chain, effect, ctxDone, receiveValues,
                 scriptPublicKey, balance, i>>

(* ---- signing and verification ------------------------------------------- *)
\* transaction.go:128-163, called at account.go:244 and 338.
Sign ==
  /\ pc = "sign"
  /\ msgTx' = SignAll(msgTx, call.f, call.contract)
  /\ hist' = [hist EXCEPT !.signs = @ + 1, !.stages = Append(@, "sign")]
  /\ pc' = "verify"
  /\ UNCHANGED <<slave, duration, transaction, network, chain, effect, ctxDone, call, receiveValues,
                 scriptPublicKey, balance, txFee, i, result>>

\* account.go:250 and 344: err := tx.verify(); err != nil.
VerifyPasses_Always(engineOk) == TRUE
VerifyPasses(engineOk) == engineOk

\* transaction.go:203-216, called at account.go:250 and 344: the script
\* engine runs once per recorded input value; its verdict is the library's.
\* BuildTransaction then serializes and returns (account.go:349-355).
Verify ==
  /\ pc = "verify"
  /\ \E engineOk \in BOOLEAN :
       /\ (Len(receiveValues) = 0 => engineOk)
       /\ hist' = [hist EXCEPT !.verifies = @ + Len(receiveValues),
                               !.engine = IF engineOk THEN "ok" ELSE "failed",
                               !.stages = IF VerifyPasses(engineOk)
                                            THEN Append(@, "verify") ELSE @]
       /\ IF ~VerifyPasses(engineOk)
            THEN /\ result' = Returned("ErrScriptVerification", 0)
                 /\ pc' = "done"
                 /\ UNCHANGED call
            ELSE IF call.op = "BuildTransaction"
              THEN /\ result' = Returned("nil", 0)
                   /\ pc' = "done"
                   /\ UNCHANGED call
              ELSE \E postCond \in PostCondArgs(call.op) :
                     /\ call' = [call EXCEPT !.postCond = postCond]
                     /\ result' = result
                     /\ pc' = "submit"
  /\ UNCHANGED <<slave, duration, transaction, network, chain, effect, ctxDone, msgTx, receiveValues,
                 scriptPublicKey, balance, txFee, i>>

(* ---- specification of the assembly --------------------------------------- *)
Next ==
  \/ SendTransaction
  \/ BuildTransaction
  \/ Transfer
  \/ FundBalance
  \/ FundSelect
  \/ FundAll
  \/ EstimateFee
  \/ Sign
  \/ Verify

Spec == Init /\ [][Next]_vars

(* ---- the chain moves while fund runs ----------------------------------- *)
\* The UTXO set of the funding address when all its UTXOs carry one script.
HomogeneousChains ==
  {c \in Chains : \A k \in 1..Len(c) : c[k].ScriptPubKey = <<1>>}

\* Another transaction spends UTXO k of the address, or pays the address a
\* new output, between tx.fund's Balance (transaction.go:51) and its GetUTXOs
\* (transaction.go:60).
OtherSpends ==
  /\ pc = "fund_utxos"
  /\ \E k \in 1..Len(chain) :
       chain' = SubSeq(chain, 1, k - 1) \o SubSeq(chain, k + 1, Len(chain))
  /\ UNCHANGED <<slave, duration, transaction, network, effect, ctxDone, call,
                 pc, msgTx, receiveValues, scriptPublicKey, balance, txFee, i,
                 result, hist>>

OtherPays ==
  /\ pc = "fund_utxos"
  /\ Len(chain) < MaxUTXOs
  /\ \E amount \in Amounts :
       chain' = Append(chain, [TxHash |-> MaxUTXOs + 1 + Len(chain),
                               Amount |-> amount, ScriptPubKey |-> <<1>>])
  /\ UNCHANGED <<slave, duration, transaction, network, effect, ctxDone, call,
                 pc, msgTx, receiveValues, scriptPublicKey, balance, txFee, i,
                 result, hist>>

InitRace == InitWith(HomogeneousChains) /\ network = "testnet3"
NextRace ==
  \/ SendTransaction
  \/ FundBalance
  \/ FundSelect
  \/ OtherSpends
  \/ OtherPays
SpecRace == InitRace /\ [][NextRace]_vars

(* ---- pre-conditions that add inputs --------------------------------------- *)
\* account.go:194-197: preCond receives tx.msgTx itself; a closure that adds
\* an input of its own and a payment output, and returns true.
InputPreConds ==
  {[given |-> TRUE, ret |-> TRUE, outs |-> o, ins |-> 1] : o \in OutsOfLen(1)}

SendTransactionWithInputs ==
  /\ pc = "idle"
  /\ \E contract \in BOOLEAN, pre \in InputPreConds, sendAll \in BOOLEAN :
       Begin([op |-> "SendTransaction", contract |-> contract, preCond |-> pre,
              sendAll |-> sendAll, f |-> FALSE, postCond |-> FALSE], hist)
  /\ UNCHANGED <<slave, duration, transaction, network, chain, effect, ctxDone,
                 receiveValues, scriptPublicKey, balance, txFee, i>>

VerifyChains == ChainsOfLen(1) \cup ChainsOfLen(2)
InitVerify == InitWith(VerifyChains) /\ network = "testnet3"
NextVerify ==
  \/ Next
  \/ SendTransactionWithInputs
SpecVerify == InitVerify /\ [][NextVerify]_vars

(* ---- submission and polling ---------------------------------------------- *)
\* account.go:258: case <-ctx.Done().
Cancelled_Never(done) == FALSE
Cancelled(done) == done

\* account.go:266: i < 60.
PollAgain_OffByOne(n) == n <= PollAttempts
PollAgain(n) == n < PollAttempts

\* account.go:262: err := tx.submit(); err != nil.
SubmitFails_Never(publishOk) == FALSE
SubmitFails(publishOk) == ~publishOk

\* account.go:255-265: one pass of the outer loop up to the poll loop: the
\* context check, then tx.submit (transaction.go:218-220).
Submit ==
  /\ pc = "submit"
  /\ IF Cancelled(ctxDone)
       THEN /\ result' = Returned("ErrPostConditionCheckFailed", 0)
            /\ pc' = "done"
            /\ UNCHANGED <<hist, i>>
       ELSE \E publishOk \in BOOLEAN :
              /\ hist.publishCalls < MaxRounds
              /\ IF ~SubmitFails(publishOk)
                   THEN /\ hist' = [hist EXCEPT !.publishCalls = @ + 1,
                                                !.publishes =
                                                  IF publishOk THEN @ + 1 ELSE @,
                                                !.evalsInRound = 0]
                        /\ i' = 0
                        /\ pc' = "poll"
                        /\ result' = result
                   ELSE /\ hist' = [hist EXCEPT !.publishCalls = @ + 1]
                        /\ result' = Returned("ErrPublish", 0)
                        /\ pc' = "done"
                        /\ i' = i
  /\ UNCHANGED <<slave, duration, transaction, network, chain, effect, ctxDone, call, msgTx, receiveValues,
                 scriptPublicKey, balance, txFee>>

\* account.go:266-272: one iteration of the poll loop: the post-condition,
\* then either the return or the sleep and i++.
Poll ==
  /\ pc = "poll"
  /\ PollAgain(i)
  /\ IF ~call.postCond
       THEN /\ result' = Returned("nil", txFee)
            /\ pc' = "done"
            /\ UNCHANGED <<hist, i>>
       ELSE IF effect
         THEN /\ result' = Returned("nil", txFee)
              /\ pc' = "done"
              /\ hist' = [hist EXCEPT !.evals = @ + 1, !.evalsInRound = @ + 1,
                                      !.trueEvals = @ + 1]
              /\ i' = i
         ELSE /\ hist' = [hist EXCEPT !.evals = @ + 1, !.evalsInRound = @ + 1,
                                      !.falseEvals = @ + 1,
                                      !.clock = @ + PollInterval]
              /\ i' = i + 1
              /\ pc' = IF PollAgain(i + 1) THEN "poll" ELSE "submit"
              /\ result' = result
  /\ UNCHANGED <<slave, duration, transaction, network, chain, effect, ctxDone, call, msgTx, receiveValues,
                 scriptPublicKey, balance, txFee>>

(* ---- environment ---------------------------------------------------------- *)
\* The caller cancels the context (or its deadline passes).
Cancel ==
  /\ ~ctxDone
  /\ pc # "done"
  /\ ctxDone' = TRUE
  /\ UNCHANGED <<slave, duration, transaction, network, chain, effect, call, pc, msgTx, receiveValues,
                 scriptPublicKey, balance, txFee, i, result, hist>>

\* The broadcast transaction shows on the chain: from now on the
\* post-condition holds.
Confirm ==
  /\ ~effect
  /\ pc # "done"
  /\ hist.publishes > 0
  /\ effect' = TRUE
  /\ UNCHANGED <<slave, duration, transaction, network, chain, ctxDone, call, pc, msgTx, receiveValues,
                 scriptPublicKey, balance, txFee, i, result, hist>>

(* ---- specification of the whole call -------------------------------------- *)
\* The whole call is explored on testnet3 and on an unsupported network;
\* mainnet differs from testnet3 only in the length of the serialized key.
InitSend == InitWith(SendChains) /\ network # "mainnet"

NextSend ==
  \/ SendTransaction
  \/ BuildTransaction
  \/ Transfer
  \/ FundBalance
  \/ FundSelect
  \/ FundAll
  \/ EstimateFee
  \/ Sign
  \/ Verify
  \/ Submit
  \/ Poll
  \/ Cancel
  \/ Confirm

SpecSend == InitSend /\ [][NextSend]_vars

\* The goroutine of the call keeps running: a step of the call that is
\* possible is eventually taken.  The liveness of the loop does not depend on
\* what the caller asked to pay, so this specification explores the calls
\* without a pre-condition.
InitFair == InitWith({FairChain}) /\ network = "testnet3"
CallStep == Next \/ Submit \/ Poll
NextFair == NextSend /\ call'.preCond = NoPreCond
FairSpecSend == InitFair /\ [][NextFair]_vars /\ WF_vars(CallStep)

(* ---- the fee computation on its own --------------------------------------- *)
\* Sizes and rates around the clamping threshold, and oracle rates near 2^59,
\* whose products with a size that is a multiple of 32 wrap to within a few
\* hundred of zero.
FeeSizes == {0, 1, 94, 95, 188, 189, 224, 256, 313, 314, 1000}
FeeRates == {0, 1, 10, 30, 50, 100, 9400, 9401, 10000, 32767}
HugeRates == {<<0, 0, 0, 2048>>, <<1, 0, 0, 2048>>, <<65535, 65535, 65535, 2047>>}
FeeInputs ==
  {<<n, ToInt64(r)>> : n \in FeeSizes, r \in FeeRates}
    \cup ({224, 256} \X HugeRates)

\* account.go:237-240 and 331-334 applied to a size and a rate.
ComputeFee ==
  /\ pc = "idle"
  /\ \E in \in FeeInputs :
       /\ hist' = [hist EXCEPT !.size = in[1], !.rate = in[2]]
       /\ txFee' = Fee(in[1], in[2])
  /\ pc' = "done"
  /\ UNCHANGED <<slave, duration, transaction, network, chain, effect, ctxDone, call, msgTx, receiveValues,
                 scriptPublicKey, balance, i, result>>

InitFee == InitWith({<<>>}) /\ network = "testnet3"
SpecFee == InitFee /\ [][ComputeFee]_vars

(* ---- TxBuilder ------------------------------------------------------------- *)
\* txbuilder.go:24: the builder's fee and dust.
BuilderFee == 10000
BuilderDust == 600
MaxIns == 2

\* What the caller asks to pay: an int64.
BuildValues ==
  {Int64Of(v) : v \in {-20000, 0, 500, 9399, 9400, 10000, 20000}}
    \cup {Sub64(MaxInt64, Int64Of(5000))}

\* What GetUTXOs answers to one query of fundBtcTx: an error, or a list that
\* may be shorter or longer than the limit asked for.
NoAnswer == [ok |-> FALSE, utxos |-> <<>>]
ClientAnswers ==
  {NoAnswer}
    \cup {[ok |-> TRUE, utxos |-> c] : c \in UNION {ChainsOfLen(n) : n \in 0..MaxIns}}

\* The answers for the contract's address, whose UTXOs all carry the script
\* of that address.
ScriptAnswers ==
  {NoAnswer}
    \cup {[ok |-> TRUE,
           utxos |-> [k \in 1..n |->
                        [TxHash |-> k, Amount |-> 10000, ScriptPubKey |-> <<2>>]]] :
            n \in 0..MaxIns}

\* The contract bytes as a script to sign against; nil is the empty script.
ContractScript(contract) == IF contract THEN <<0>> ELSE <<>>

\* txbuilder.go:198-217: the loop of fundBtcTx over utxos[k..].
RECURSIVE FundBtcLoop(_, _, _, _)
FundBtcLoop(utxos, k, from, st) ==
  IF k > Len(utxos) THEN st
  ELSE LET j == utxos[k]
       IN IF ScriptDiffers(st.scriptPubKey, j.ScriptPubKey)
            THEN FundBtcLoop(utxos, k + 1, from, st)
            ELSE FundBtcLoop(utxos, k + 1, from,
                   [scriptPubKey |->
                      IF Len(st.scriptPubKey) = 0
                        THEN j.ScriptPubKey ELSE st.scriptPubKey,
                    TxIn |-> Append(st.TxIn,
                               [PreviousOutPoint |-> <<from, j.TxHash>>,
                                SignatureScript |-> <<>>]),
                    amounts |-> Append(st.amounts, j.Amount)])

\* txbuilder.go:179-223: fundBtcTx for n inputs of the address from, given
\* the client's answer.
fundBtcTx(answer, n, from) ==
  LET st == FundBtcLoop(answer.utxos, 1, from,
                        [scriptPubKey |-> <<>>, TxIn |-> <<>>, amounts |-> <<>>])
  IN IF ~answer.ok
       THEN [err |-> "ErrClient", scriptPubKey |-> <<>>, TxIn |-> <<>>,
             amounts |-> <<>>]
       ELSE IF Len(answer.utxos) < n
         THEN [err |-> "ErrInsufficientUtxos", scriptPubKey |-> <<>>,
               TxIn |-> <<>>, amounts |-> <<>>]
         ELSE [err |-> "nil", scriptPubKey |-> st.scriptPubKey, TxIn |-> st.TxIn,
               amounts |-> st.amounts]

RECURSIVE SumSeq(_)
SumSeq(q) == IF Len(q) = 0 THEN 0 ELSE q[1] + SumSeq(Tail(q))

\* txbuilder.go:86: len(msgTx.TxIn) != int(mwIns+scriptIns).
CountMismatch(n, mwIns, scriptIns) == n # mwIns + scriptIns

\* txbuilder.go:48-144.
Build ==
  /\ pc = "idle"
  /\ \E contract \in BOOLEAN, value \in BuildValues, mwIns \in 0..MaxIns,
        scriptIns \in 0..MaxIns, main \in ClientAnswers, script \in ScriptAnswers :
       LET key == SerializePublicKey(network)
           f1 == fundBtcTx(main, mwIns, "main")
           f2 == IF contract /\ f1.err = "nil"
                   THEN fundBtcTx(script, scriptIns, "script")
                   ELSE [err |-> "nil", scriptPubKey |-> <<>>, TxIn |-> <<>>,
                         amounts |-> <<>>]
           ins == f1.TxIn \o f2.TxIn
           funded == f1.amounts \o f2.amounts
           amt == Int64Of(SumSeq(funded))
           fee == Int64Of(BuilderFee)
           pays == Less64(Int64Of(0), value)
           rest == Sub64(amt, value)
           outs == (IF pays THEN <<[Value |-> value, PkScript |-> "dest"]>>
                            ELSE <<>>)
                     \o (IF Less64(Int64Of(BuilderFee + BuilderDust), rest)
                           THEN <<[Value |-> Sub64(rest, fee), PkScript |-> "account"]>>
                           ELSE <<>>)
           sent == IF pays THEN value
                   ELSE IF contract
                     THEN Sub64(Int64Of(SumSeq(f2.amounts)), fee)
                     ELSE Int64Of(0)
           hashes == [k \in 1..(mwIns + scriptIns) |->
                        [index |-> k - 1,
                         subScript |-> IF k <= mwIns THEN f1.scriptPubKey
                                       ELSE ContractScript(contract)]]
           err == IF key.err # "nil" THEN key.err
                  ELSE IF f1.err # "nil" THEN f1.err
                  ELSE IF f2.err # "nil" THEN f2.err
                  ELSE IF CountMismatch(Len(ins), mwIns, scriptIns)
                    THEN "ErrUtxosSpent"
                  ELSE IF Less64(amt, Add64(value, fee))
                    THEN "ErrInsufficientBalance"
                  ELSE "nil"
           asked1 == key.err = "nil"
           asked2 == asked1 /\ contract /\ f1.err = "nil"
       IN /\ (~asked1 => main = NoAnswer)
          /\ (~asked2 => script = NoAnswer)
          /\ call' = [op |-> "Build", contract |-> contract,
                      preCond |-> NoPreCond, sendAll |-> FALSE, f |-> FALSE,
                      postCond |-> FALSE, value |-> value, mwIns |-> mwIns,
                      scriptIns |-> scriptIns]
          /\ hist' = [hist EXCEPT
                        !.clientCalls = (IF asked1 THEN 1 ELSE 0)
                                          + (IF asked2 THEN 1 ELSE 0),
                        !.utxos = main.utxos,
                        !.contractUtxos = script.utxos,
                        !.funded = IF asked1 THEN funded ELSE <<>>]
          /\ result' = Returned(err, 0)
          /\ IF err = "nil"
               THEN /\ transaction' =
                         [sent |-> sent,
                          msgTx |-> [Version |-> TxVersion, TxIn |-> ins,
                                     TxOut |-> outs],
                          hashes |-> hashes, contract |-> contract,
                          mwIns |-> mwIns]
                    /\ pc' = "built"
               ELSE /\ transaction' = transaction
                    /\ pc' = "done"
  /\ UNCHANGED <<slave, duration, network, chain, effect, ctxDone, msgTx, receiveValues,
                 scriptPublicKey, balance, txFee, i>>

\* part_001:165, 175, 183: the value of the output that carries the tokens.
OmniDust == 546
OmniValues == {0, 10000}
TokenValues == {0, 100}

\* part_001:197-211: the input index a signature hash is computed with, for
\* entry k (from 1) of the hashes.
OmniHashIndex(k, mwIns) == IF k <= mwIns THEN 0 ELSE k - 1

\* part_001:123-224.
BuildOmni ==
  /\ pc = "idle"
  /\ \E contract \in BOOLEAN, btcValue \in OmniValues, tokenValue \in TokenValues,
        mwIns \in 0..MaxIns, scriptIns \in 0..MaxIns,
        main \in ClientAnswers, script \in ScriptAnswers :
       LET key == SerializePublicKey(network)
           f1 == fundBtcTx(main, mwIns, "main")
           f2 == IF contract /\ f1.err = "nil"
                   THEN fundBtcTx(script, scriptIns, "script")
                   ELSE [err |-> "nil", scriptPubKey |-> <<>>, TxIn |-> <<>>,
                         amounts |-> <<>>]
           ins == f1.TxIn \o f2.TxIn
           funded == f1.amounts \o f2.amounts
           amt == Int64Of(SumSeq(funded))
           fee == Int64Of(BuilderFee)
           omni == Int64Of(OmniDust)
           outs == (IF tokenValue > 0
                      THEN <<[Value |-> omni, PkScript |-> "dest"],
                             [Value |-> Int64Of(0), PkScript |-> "omni"]>>
                      ELSE <<>>)
                     \o (IF Less64(Int64Of(BuilderFee + BuilderDust + OmniDust), amt)
                           THEN <<[Value |-> Sub64(Sub64(amt, fee), omni),
                                   PkScript |-> "account"]>>
                           ELSE <<>>)
           sent == IF contract
                     THEN Sub64(Int64Of(SumSeq(f2.amounts)), fee)
                     ELSE Int64Of(0)
           hashes == [k \in 1..(mwIns + scriptIns) |->
                        [index |-> OmniHashIndex(k, mwIns),
                         subScript |-> IF k <= mwIns THEN f1.scriptPubKey
                                       ELSE ContractScript(contract)]]
           err == IF key.err # "nil" THEN key.err
                  ELSE IF f1.err # "nil" THEN f1.err
                  ELSE IF f2.err # "nil" THEN f2.err
                  ELSE IF CountMismatch(Len(ins), mwIns, scriptIns)
                    THEN "ErrUtxosSpent"
                  ELSE IF Less64(amt, Add64(Add64(Int64Of(btcValue), fee), omni))
                    THEN "ErrInsufficientBalance"
                  ELSE "nil"
           asked1 == key.err = "nil"
           asked2 == asked1 /\ contract /\ f1.err = "nil"
       IN /\ (~asked1 => main = NoAnswer)
          /\ (~asked2 => script = NoAnswer)
          /\ call' = [op |-> "BuildOmni", contract |-> contract,
                      preCond |-> NoPreCond, sendAll |-> FALSE, f |-> FALSE,
                      postCond |-> FALSE, value |-> Int64Of(btcValue),
                      mwIns |-> mwIns, scriptIns |-> scriptIns,
                      tokenValue |-> tokenValue]
          /\ hist' = [hist EXCEPT
                        !.clientCalls = (IF asked1 THEN 1 ELSE 0)
                                          + (IF asked2 THEN 1 ELSE 0),
                        !.utxos = main.utxos,
                        !.contractUtxos = script.utxos,
                        !.funded = IF asked1 THEN funded ELSE <<>>]
          /\ result' = Returned(err, 0)
          /\ IF err = "nil"
               THEN /\ transaction' =
                         [sent |-> sent,
                          msgTx |-> [Version |-> TxVersion, TxIn |-> ins,
                                     TxOut |-> outs],
                          hashes |-> hashes, contract |-> contract,
                          mwIns |-> mwIns]
                    /\ pc' = "built"
               ELSE /\ transaction' = transaction
                    /\ pc' = "done"
  /\ UNCHANGED <<slave, duration, network, chain, effect, ctxDone, msgTx,
                 receiveValues, scriptPublicKey, balance, txFee, i>>

\* txbuilder.go:160: int64(i) >= tx.mwIns && tx.contract != nil.
AppendsContract_Always(k, mwIns, contract) == contract
AppendsContract(k, mwIns, contract) == k >= mwIns /\ contract

\* txbuilder.go:157-167: the signature script of input k (from 0).
InjectedScript(k, tx) ==
  <<"sig", "pubkey">>
    \o (IF AppendsContract(k, tx.mwIns, tx.contract) THEN <<"contract">> ELSE <<>>)

\* txbuilder.go:150-170: the caller hands over n signatures; more
\* signatures than inputs run past the end of TxIn, after every input has
\* got its script.
InjectSigs ==
  /\ pc = "built"
  /\ \E n \in 0..(2 * MaxIns + 1) :
       LET key == SerializePublicKey(network)
           ins == transaction.msgTx.TxIn
           set == IF n <= Len(ins) THEN n ELSE Len(ins)
       IN IF key.err # "nil"
            THEN /\ result' = Returned(key.err, 0)
                 /\ pc' = "done"
                 /\ UNCHANGED <<transaction, hist>>
            ELSE /\ transaction' =
                      [transaction EXCEPT !.msgTx.TxIn =
                         [k \in 1..Len(ins) |->
                            IF k <= set
                              THEN [ins[k] EXCEPT !.SignatureScript =
                                      InjectedScript(k - 1, transaction)]
                              ELSE ins[k]]]
                 /\ hist' = [hist EXCEPT !.sigs = n]
                 /\ result' = IF n > Len(ins)
                                THEN [Returned("index out of range", 0) EXCEPT
                                        !.status = "panic"]
                                ELSE Returned("nil", 0)
                 /\ pc' = "injected"
  /\ UNCHANGED <<slave, duration, network, chain, effect, ctxDone, call, msgTx, receiveValues,
                 scriptPublicKey, balance, txFee, i>>

\* txbuilder.go:172-177: Submit hands tx.msgTx to the client as it is.
TxSubmit ==
  /\ pc \in {"built", "injected"}
  /\ result.status # "panic"
  /\ \E publishOk \in BOOLEAN :
       /\ hist' = [hist EXCEPT !.publishCalls = @ + 1,
                               !.publishes = IF publishOk THEN @ + 1 ELSE @]
       /\ result' = Returned(IF publishOk THEN "nil" ELSE "ErrPublish", 0)
  /\ pc' = "submitted"
  /\ UNCHANGED <<slave, duration, transaction, network, chain, effect, ctxDone,
                 call, msgTx, receiveValues, scriptPublicKey, balance, txFee, i>>

\* The builder does not look at the length of the serialized key: one
\* supported network and the unsupported one.
InitBuild == InitWith({<<>>}) /\ network # "mainnet"
NextBuild ==
  \/ Build
  \/ BuildOmni
  \/ InjectSigs
  \/ TxSubmit
SpecBuild == InitBuild /\ [][NextBuild]_vars

(* ---- fee tiers ------------------------------------------------------------ *)
MaxQueries == 2

\* What the oracle may answer: nothing, or rates with
\* fastestFee >= halfHourFee >= hourFee.
RateOracles ==
  OracleResponses
    \cup {[ok |-> TRUE, fastestFee |-> 20, halfHourFee |-> 20, hourFee |-> 20],
          [ok |-> TRUE, fastestFee |-> 100, halfHourFee |-> 50, hourFee |-> 50]}

\* account.go:368-406: one call of SuggestedTxRate and what it returned.
QueryRate ==
  /\ Len(hist.rates) < MaxQueries
  /\ \E txSpeed \in Speeds, oracle \in RateOracles :
       LET sug == SuggestedTxRate(txSpeed, oracle)
       IN hist' = [hist EXCEPT
                     !.oracleCalls = @ + 1,
                     !.rates = Append(@, [txSpeed |-> txSpeed, oracle |-> oracle,
                                          rate |-> sug.rate, err |-> sug.err])]
  /\ UNCHANGED <<slave, duration, transaction, network, chain, effect, ctxDone,
                 call, pc, msgTx, receiveValues, scriptPublicKey, balance,
                 txFee, i, result>>

InitRate == InitWith({<<>>}) /\ network = "testnet3"
SpecRate == InitRate /\ [][QueryRate]_vars

(* ---- blockchain.info backend: backoff ------------------------------------ *)
MaxAttempts == 5

\* part_002:321 and 333: the first wait, and the next one,
\* time.Duration(float64(duration) * 1.6).
FirstWait == 1000
NextWait(d) == (d * 16) \div 10

\* What one run of PublishTransaction's closure returns (part_002:267-286).
FResults == {"nil", "ErrHTTP", "ErrBitcoinSubmitTx"}

\* backoff returns what f returned only when that is nil (part_002:328-330).
FReturns_Any(err) == TRUE
FReturns(err) == err = "nil"

\* part_002:258-266: PublishTransaction serializes the transaction and
\* enters backoff, which sets duration.
PublishTransaction ==
  /\ pc = "idle"
  /\ call' = [NoCall EXCEPT !.op = "PublishTransaction"]
  /\ duration' = FirstWait
  /\ pc' = "backoff"
  /\ UNCHANGED <<slave, transaction, network, chain, effect, ctxDone, msgTx,
                 receiveValues, scriptPublicKey, balance, txFee, i, result,
                 hist>>

\* part_002:322-335: one round of the loop: the select on ctx.Done(), the
\* call of f, and after an error the sleep and the longer duration.
BackoffRound ==
  /\ pc = "backoff"
  /\ IF Cancelled(ctxDone)
       THEN /\ result' = Returned("ErrTimedOut", 0)
            /\ pc' = "done"
            /\ UNCHANGED <<duration, hist>>
       ELSE \E err \in FResults :
              /\ (err # "nil" => Len(hist.attempts) < MaxAttempts)
              /\ IF FReturns(err)
                   THEN /\ result' = Returned(err, 0)
                        /\ pc' = "done"
                        /\ duration' = duration
                        /\ hist' = [hist EXCEPT
                                      !.publishCalls = @ + 1,
                                      !.attempts = Append(@, err)]
                   ELSE /\ result' = result
                        /\ pc' = "backoff"
                        /\ duration' = NextWait(duration)
                        /\ hist' = [hist EXCEPT
                                      !.publishCalls = @ + 1,
                                      !.attempts = Append(@, err),
                                      !.waits = Append(@, duration),
                                      !.clock = @ + duration]
  /\ UNCHANGED <<slave, transaction, network, chain, effect, ctxDone, call,
                 msgTx, receiveValues, scriptPublicKey, balance, txFee, i>>

InitBackoff == InitWith({<<>>}) /\ network = "testnet3"
NextBackoff ==
  \/ PublishTransaction
  \/ BackoffRound
  \/ Cancel
SpecBackoff == InitBackoff /\ [][NextBackoff]_vars

(* ---- Slave addresses ------------------------------------------------------ *)
\* txscript: the largest element a script may push, and the largest script.
MaxScriptElementSize == 520
MaxScriptSize == 10000
MaxDerivations == 2

\* Byte strings handed to the derivation, by length and content.
NoData == [len |-> 0, id |-> 0]
Hashes160 == {[len |-> 20, id |-> 1], [len |-> 20, id |-> 2]}
MasterKeyHashes == Hashes160 \cup {[len |-> MaxScriptElementSize + 1, id |-> 1]}
Nonces ==
  Hashes160 \cup {NoData, [len |-> MaxScriptElementSize, id |-> 1],
                  [len |-> MaxScriptElementSize + 1, id |-> 1]}

\* txscript.ScriptBuilder: the opcode that pushes len bytes, and the bytes the
\* push takes in the script.
PushOp(len) ==
  IF len = 0 THEN "OP_0"
  ELSE IF len <= 75 THEN "OP_DATA"
  ELSE IF len <= 255 THEN "OP_PUSHDATA1"
  ELSE "OP_PUSHDATA2"
DataSize(len) ==
  IF len = 0 THEN 1
  ELSE IF len <= 75 THEN 1 + len
  ELSE IF len <= 255 THEN 2 + len
  ELSE 3 + len

RECURSIVE ScriptLen(_)
ScriptLen(script) ==
  IF Len(script) = 0 THEN 0
  ELSE (IF script[1].op \in {"OP_0", "OP_DATA", "OP_PUSHDATA1", "OP_PUSHDATA2"}
          THEN DataSize(script[1].data.len) ELSE 1)
         + ScriptLen(Tail(script))

NewScriptBuilder == [script |-> <<>>, err |-> "nil"]

\* ScriptBuilder.AddOp and AddData: a builder that has failed stays as it is.
AddOp(b, op) ==
  IF b.err # "nil" THEN b
  ELSE IF ScriptLen(b.script) + 1 > MaxScriptSize
    THEN [b EXCEPT !.err = "ErrScriptNotCanonical"]
  ELSE [b EXCEPT !.script = Append(@, [op |-> op, data |-> NoData])]

AddData(b, data) ==
  IF b.err # "nil" THEN b
  ELSE IF ScriptLen(b.script) + DataSize(data.len) > MaxScriptSize
    THEN [b EXCEPT !.err = "ErrScriptNotCanonical"]
  ELSE IF data.len > MaxScriptElementSize
    THEN [b EXCEPT !.err = "ErrScriptNotCanonical"]
  ELSE [b EXCEPT !.script = Append(@, [op |-> PushOp(data.len), data |-> data])]

\* part_000:16-26: the script and the error of b.Script().
SlaveScript(mpkh, nonce) ==
  AddOp(AddOp(AddData(AddOp(AddOp(AddOp(AddData(NewScriptBuilder, nonce),
    "OP_DROP"), "OP_DUP"), "OP_HASH160"), mpkh), "OP_EQUALVERIFY"),
    "OP_CHECKSIG")

\* chaincfg: the version byte of a script-hash address.
ScriptHashAddrID(net) == IF net = "mainnet" THEN 5 ELSE 196

\* btcutil.NewAddressScriptHash: the address holds the hash of the script,
\* which stands here as the script it is the hash of.
NilAddress == [kind |-> "nil", hash160 |-> <<>>, netID |-> 0]
NewAddressScriptHash(script, net) ==
  [addr |-> [kind |-> "scripthash", hash160 |-> script,
             netID |-> ScriptHashAddrID(net)],
   err |-> "nil"]

\* part_000:8-14: a failed script gives no address and no error.
SlaveAddress(mpkh, nonce, net) ==
  LET b == SlaveScript(mpkh, nonce)
  IN IF b.err # "nil"
       THEN [addr |-> NilAddress, err |-> "nil"]
       ELSE NewAddressScriptHash(b.script, net)

CallSlaveScript ==
  /\ Len(slave) < MaxDerivations
  /\ \E mpkh \in MasterKeyHashes, nonce \in Nonces :
       LET b == SlaveScript(mpkh, nonce)
       IN slave' = Append(slave, [op |-> "SlaveScript", mpkh |-> mpkh,
                                  nonce |-> nonce, script |-> b.script,
                                  addr |-> NilAddress, err |-> b.err])
  /\ UNCHANGED <<duration, transaction, network, chain, effect, ctxDone, call,
                 pc, msgTx, receiveValues, scriptPublicKey, balance, txFee, i,
                 result, hist>>

CallSlaveAddress ==
  /\ Len(slave) < MaxDerivations
  /\ \E mpkh \in MasterKeyHashes, nonce \in Nonces :
       LET a == SlaveAddress(mpkh, nonce, network)
       IN slave' = Append(slave, [op |-> "SlaveAddress", mpkh |-> mpkh,
                                  nonce |-> nonce, script |-> <<>>,
                                  addr |-> a.addr, err |-> a.err])
  /\ UNCHANGED <<duration, transaction, network, chain, effect, ctxDone, call,
                 pc, msgTx, receiveValues, scriptPublicKey, balance, txFee, i,
                 result, hist>>

InitSlave == InitWith({<<>>})
NextSlave ==
  \/ CallSlaveScript
  \/ CallSlaveAddress
SpecSlave == InitSlave /\ [][NextSlave]_vars

(* ======================================================================== *)
(* Properties                                                               *)
(* ======================================================================== *)
StageDone(name) == \E k \in 1..Len(hist.stages) : hist.stages[k] = name

\* The transaction is assembled: funded, fee deducted, signed and verified.
Assembled == StageDone("verify")

\* The outputs the caller asked for (what the pre-condition added).
RequestedOuts == IF call.preCond.given THEN call.preCond.outs ELSE <<>>
Required == SumValues(RequestedOuts) + MaxBitcoinFee

\* The amount of the UTXO an input spends, out of the list the client reported.
InputAmount(in) == hist.utxos[in.PreviousOutPoint].Amount
InputScript(in) == hist.utxos[in.PreviousOutPoint].ScriptPubKey
RECURSIVE SumInputs(_)
SumInputs(ins) ==
  IF Len(ins) = 0 THEN 0 ELSE InputAmount(ins[1]) + SumInputs(Tail(ins))

FundEntered ==
  /\ call.op # "none"
  /\ ~call.sendAll
  /\ pc # "fund"

\* C1: in every assembled transaction the amounts of the inputs equal the
\* output values plus the deducted fee, and the fee is at most MaxBitcoinFee.
C1_Conservation ==
  Assembled =>
    /\ SumInputs(msgTx.TxIn) = SumValues(msgTx.TxOut) + txFee
    /\ txFee <= MaxBitcoinFee

\* C2: in every assembled transaction no output value is below the dust
\* threshold.
C2_NoDustOutput ==
  Assembled =>
    \A k \in 1..Len(msgTx.TxOut) : msgTx.TxOut[k].Value >= BitcoinDust

\* C3 as stated: with sendAll false, once fund has run against an answering
\* client and the balance is below the requested outputs plus MaxBitcoinFee,
\* the call has failed with the insufficient-balance error, without inputs
\* and without a broadcast.
InsufficientBalanceOutcome ==
  /\ pc = "done"
  /\ result.status = "returned"
  /\ result.err = "ErrInsufficientBalance"
  /\ result.required = Required
  /\ result.available = Balance(chain)
  /\ msgTx.TxIn = <<>>
  /\ hist.publishCalls = 0

C4_PreCondition ==
  /\ hist.preCondCalls <= 1
  /\ (call.op \in {"SendTransaction", "BuildTransaction"}
        /\ call.preCond.given /\ ~call.preCond.ret)
       => /\ pc = "done"
          /\ result.status = "returned"
          /\ result.err = "ErrPreConditionCheckFailed"
          /\ hist.preCondCalls = 1
          /\ hist.preCondSaw = [Version |-> 2, TxIn |-> <<>>, TxOut |-> <<>>]
          /\ hist.clientCalls = 0
          /\ hist.oracleCalls = 0
          /\ hist.signs = 0
          /\ hist.publishCalls = 0

C4_Witness ==
  /\ call.op = "SendTransaction"
  /\ call.preCond.given
  /\ ~call.preCond.ret
  /\ result.err = "ErrPreConditionCheckFailed"

\* C5: after fund or fundAll every input spends a UTXO whose locking script
\* equals that of the first UTXO the client reported, which is the reference
\* script of the transaction.
C5_HomogeneousScripts ==
  hist.scanned =>
    /\ \A k \in 1..Len(msgTx.TxIn) :
         /\ InputScript(msgTx.TxIn[k]) = hist.utxos[1].ScriptPubKey
         /\ InputScript(msgTx.TxIn[k]) = scriptPublicKey
    /\ Len(hist.utxos) > 0 => scriptPublicKey = hist.utxos[1].ScriptPubKey

C5_Witness ==
  /\ hist.scanned
  /\ Len(msgTx.TxIn) = 2
  /\ \E k \in 1..Len(hist.utxos) :
       hist.utxos[k].ScriptPubKey # hist.utxos[1].ScriptPubKey

\* C6: fund fails with ErrMismatchedPubKeys exactly when the UTXOs that carry
\* the reference script sum to less than the requested outputs plus
\* MaxBitcoinFee, and then adds no change output and signs and broadcasts
\* nothing; otherwise the inputs are the shortest prefix of those UTXOs that
\* reaches that sum.
SameScript(u) == u.ScriptPubKey = hist.utxos[1].ScriptPubKey
Matching == SelectSeq(hist.utxos, SameScript)

AssemblyErrors ==
  {"ErrPreConditionCheckFailed", "ErrUnsupportedNetwork", "ErrDustOutput",
   "ErrClient", "ErrInsufficientBalance", "ErrMismatchedPubKeys",
   "ErrScriptVerification"}

\* C7: PublishTransaction is called only after funding, size estimation, fee
\* deduction, signing and script verification have succeeded, in that order;
\* a failed verification, or any earlier error, is returned and nothing is
\* broadcast.
C7_PublishAfterVerify ==
  /\ hist.publishCalls > 0 =>
       /\ hist.stages = <<"fund", "estimate", "fee", "sign", "verify">>
       /\ hist.engine = "ok"
       /\ hist.signs = 1
       /\ call.op # "BuildTransaction"
  /\ hist.engine = "failed" =>
       /\ pc = "done"
       /\ result.err = "ErrScriptVerification"
       /\ hist.publishCalls = 0
  /\ (result.status = "panic" \/ result.err \in AssemblyErrors) =>
       hist.publishCalls = 0

C7_Witness ==
  /\ hist.publishes > 0
  /\ Len(msgTx.TxIn) > 0
  /\ hist.verifies = Len(msgTx.TxIn)

SendSucceeded ==
  /\ pc = "done"
  /\ call.op \in {"SendTransaction", "Transfer"}
  /\ result.status = "returned"
  /\ result.err = "nil"

\* C8: after a successful broadcast the post-condition is evaluated at most
\* 60 times, with a 5-second wait after every evaluation that returns false;
\* the first evaluation that returns true returns success with the fee; with
\* no post-condition the call returns success right after the first
\* broadcast, having broadcast once.
C8_Polling ==
  /\ hist.evalsInRound <= PollAttempts
  /\ hist.evals <= PollAttempts * hist.publishes
  /\ hist.evals = hist.falseEvals + hist.trueEvals
  /\ hist.clock = PollInterval * hist.falseEvals
  /\ hist.trueEvals <= 1
  /\ hist.trueEvals = 1 => (SendSucceeded /\ result.fee = txFee)
  /\ (~call.postCond /\ hist.publishes > 0) =>
       /\ hist.publishes = 1
       /\ hist.publishCalls = 1
       /\ hist.evals = 0
       /\ hist.clock = 0
       /\ pc \in {"poll", "done"}
       /\ pc = "done" => (SendSucceeded /\ result.fee = txFee)
  /\ SendSucceeded =>
       /\ hist.publishes >= 1
       /\ call.postCond => hist.trueEvals = 1

C8_Witness ==
  /\ SendSucceeded
  /\ call.postCond
  /\ hist.trueEvals = 1
  /\ hist.falseEvals > PollAttempts

\* C9: when a polling round ends with all 60 evaluations false, the call
\* broadcasts again and polls anew if the context is not cancelled and
\* returns ErrPostConditionCheckFailed if it is; it returns success only if
\* the post-condition returned true or is absent; and once the context is
\* cancelled a call with a post-condition returns
\* ErrPostConditionCheckFailed unless the post-condition turns true.
RoundExhausted == pc = "submit" /\ hist.publishes > 0

C9_RoundStep ==
  (RoundExhausted /\ pc' # "submit") =>
    IF ctxDone
      THEN /\ result'.err = "ErrPostConditionCheckFailed"
           /\ pc' = "done"
           /\ hist'.publishCalls = hist.publishCalls
      ELSE /\ hist'.publishCalls = hist.publishCalls + 1
           /\ pc' = "poll" => (i' = 0 /\ hist'.evalsInRound = 0
                                 /\ hist'.publishes = hist.publishes + 1)

C9_SuccessOnlyOnTrue ==
  SendSucceeded => (~call.postCond \/ hist.trueEvals = 1)

C9_Rebroadcast ==
  /\ []C9_SuccessOnlyOnTrue
  /\ [][C9_RoundStep]_vars
  /\ (pc \in {"submit", "poll"} /\ call.postCond /\ ctxDone)
       ~> (result.err = "ErrPostConditionCheckFailed" \/ effect)

C9_Witness ==
  /\ result.err = "ErrPostConditionCheckFailed"
  /\ hist.publishes = 2
  /\ hist.falseEvals = 2 * PollAttempts

\* C10: once the context is cancelled while the call is between polls or
\* before a broadcast, the call returns ErrPostConditionCheckFailed without
\* another post-condition evaluation, wait or broadcast.
C10_CancelStep ==
  (ctxDone /\ pc \in {"submit", "poll"}) =>
    /\ hist'.evals = hist.evals
    /\ hist'.clock = hist.clock
    /\ hist'.publishCalls = hist.publishCalls
    /\ pc' # pc => (pc' = "done" /\ result'.err = "ErrPostConditionCheckFailed")

C10_CancelAborts == [][C10_CancelStep]_vars

\* C11: a broadcast that fails, in the first round or in a later one, ends
\* the call with the client's error: the failed broadcast is the last thing
\* the call does, so there is no further broadcast and no post-condition
\* evaluation after it.
C11_FailedStep ==
  (hist'.publishCalls = hist.publishCalls + 1 /\ hist'.publishes = hist.publishes)
    => /\ pc' = "done"
       /\ result'.status = "returned"
       /\ result'.err = "ErrPublish"
       /\ hist'.evals = hist.evals

C11_AfterFailure ==
  /\ hist.publishCalls <= hist.publishes + 1
  /\ hist.publishCalls = hist.publishes + 1 =>
       (pc = "done" /\ result.err = "ErrPublish")
  /\ result.err = "ErrPublish" => hist.publishCalls = hist.publishes + 1

C11_PublishError ==
  /\ []C11_AfterFailure
  /\ [][C11_FailedStep]_vars
  /\ [][pc = "done" => (hist' = hist /\ pc' = "done" /\ result' = result)]_vars

C11_Witness ==
  /\ result.err = "ErrPublish"
  /\ hist.publishes = 1
  /\ hist.publishCalls = 2
  /\ hist.falseEvals = PollAttempts

\* C12: the fee is size * rate when that product is at most
\* MaxBitcoinFee - BitcoinDust and MaxBitcoinFee when it is larger; so it is
\* never above MaxBitcoinFee and never strictly between the two.  The rate is
\* non-negative; the product is the integer product.
RateAbove(rate, n) ==
  rate[4] > 0 \/ rate[3] > 0 \/ rate[2] > 0 \/ rate[1] > n

ProductExceeds(size, rate, n) == size > 0 /\ RateAbove(rate, n \div size)

C12_Fee ==
  (pc = "done" /\ call.op = "none") =>
    /\ IF ProductExceeds(hist.size, hist.rate, MaxBitcoinFee - BitcoinDust)
         THEN txFee = MaxBitcoinFee
         ELSE txFee = hist.size * hist.rate[1]
    /\ txFee <= MaxBitcoinFee
    /\ ~(txFee > MaxBitcoinFee - BitcoinDust /\ txFee < MaxBitcoinFee)

\* C13: when the oracle query fails the call uses the rate 30 and goes on:
\* the fee is the fee of the estimated size at rate 30, and whatever the call
\* returns afterwards is not the oracle's error.
C13_OracleFallback ==
  hist.oracleFailed =>
    /\ hist.rate = ToInt64(30)
    /\ txFee = Fee(hist.size, ToInt64(30))
    /\ hist.oracleCalls = 1
    /\ result.err \in {"nil", "ErrScriptVerification", "ErrPublish",
                       "ErrPostConditionCheckFailed", "index out of range"}
    /\ result.status = "panic" <=> Len(msgTx.TxOut) = 0
    /\ Len(msgTx.TxOut) > 0 => StageDone("fee")

C13_Witness ==
  /\ hist.oracleFailed
  /\ Assembled
  /\ hist.size = 224
  /\ txFee = 6720

\* C14: the transaction of a Transfer without sendAll, once assembled and
\* when broadcast, has exactly two outputs: the payment of exactly the value
\* to the destination, then the change to the sender, which is the inputs
\* minus the value minus the fee.
TransferValue == call.preCond.outs[1].Value

C14_TransferOutputs ==
  (call.op = "Transfer" /\ ~call.sendAll /\ Assembled) =>
    /\ Len(msgTx.TxOut) = 2
    /\ msgTx.TxOut[1] = [Value |-> TransferValue, PkScript |-> "dest"]
    /\ msgTx.TxOut[2].PkScript = "account"
    /\ msgTx.TxOut[2].Value = SumInputs(msgTx.TxIn) - TransferValue - txFee
    /\ SendSucceeded => (hist.publishes = 1 /\ result.fee = txFee)

C14_Witness ==
  /\ call.op = "Transfer"
  /\ ~call.sendAll
  /\ SendSucceeded
  /\ TransferValue = 10000
  /\ txFee > 0

\* C15: with sendAll, funding makes every UTXO the client holds for the
\* funding address an input of the transaction, in the client's order,
\* whatever the requested outputs add up to, and appends no output.
C15_FundAll ==
  (call.sendAll /\ hist.scanned) =>
    /\ Len(msgTx.TxIn) = Len(chain)
    /\ \A k \in 1..Len(chain) :
         msgTx.TxIn[k].PreviousOutPoint = chain[k].TxHash
    /\ receiveValues = [k \in 1..Len(chain) |-> chain[k].Amount]
    /\ Len(msgTx.TxOut) = Len(RequestedOuts)
    /\ \A k \in 1..Len(msgTx.TxOut) : msgTx.TxOut[k].PkScript = "dest"

\* C16: once sign has run, the signature script of every input is the
\* signature, the serialized public key, then what f pushes if f is given,
\* then the contract if one is given: the contract is the last item and f's
\* data sits between the public key and the contract.
C16_SignatureScript ==
  hist.signs > 0 =>
    \A k \in 1..Len(msgTx.TxIn) :
      LET script == msgTx.TxIn[k].SignatureScript
          n == Len(script)
      IN /\ n = 2 + (IF call.f THEN 1 ELSE 0) + (IF call.contract THEN 1 ELSE 0)
         /\ script[1] = "sig"
         /\ script[2] = "pubkey"
         /\ call.f => script[3] = "secret"
         /\ call.contract => script[n] = "contract"
         /\ \A j \in 1..n : script[j] = "contract" => (call.contract /\ j = n)
         /\ \A j \in 1..n : script[j] = "secret" => (call.f /\ j = 3)

C16_Witness ==
  /\ hist.signs > 0
  /\ call.f
  /\ call.contract
  /\ Len(msgTx.TxIn) >= 2
  /\ msgTx.TxIn[2].SignatureScript = <<"sig", "pubkey", "secret", "contract">>

\* C17: InjectSigs with one signature per input gives input i the script
\* signature, public key, and then the contract exactly when i is at or past
\* mwIns and there is a contract; when all inputs are primary-key spends, or
\* all are contract spends, every script is the one sign builds without f.
C17_InjectSigs ==
  (pc = "injected" /\ hist.sigs = Len(transaction.msgTx.TxIn)) =>
    LET ins == transaction.msgTx.TxIn
        n == Len(ins)
    IN /\ result.status = "returned" /\ result.err = "nil"
       /\ \A k \in 1..n :
            ins[k].SignatureScript =
              IF k - 1 >= transaction.mwIns /\ transaction.contract
                THEN <<"sig", "pubkey", "contract">>
                ELSE <<"sig", "pubkey">>
       /\ transaction.mwIns >= n =>
            \A k \in 1..n : ins[k].SignatureScript = SigScript(FALSE, FALSE)
       /\ (transaction.mwIns = 0 /\ transaction.contract) =>
            \A k \in 1..n : ins[k].SignatureScript = SigScript(FALSE, TRUE)

C17_Witness ==
  /\ pc = "injected"
  /\ hist.sigs = 2
  /\ transaction.mwIns = 1
  /\ transaction.contract
  /\ Len(transaction.msgTx.TxIn) = 2
  /\ transaction.msgTx.TxIn[1].SignatureScript = <<"sig", "pubkey">>
  /\ transaction.msgTx.TxIn[2].SignatureScript = <<"sig", "pubkey", "contract">>

\* The outcome of Build.
BuildCalled == call.op = "Build"
BuildReturnedTx == BuildCalled /\ pc \in {"built", "injected"}
BuildInputs == Len(transaction.msgTx.TxIn)
BuildTotal == SumSeq(hist.funded)

\* C18: Build returns a transaction only with mwIns + scriptIns inputs, and
\* then Hashes has that many entries; it returns an error whenever the client
\* answered a query with fewer or more UTXOs than asked for, whenever a UTXO
\* was skipped for its script, and whenever scriptIns > 0 without a contract.
C18_CountOnly ==
  BuildReturnedTx =>
    /\ BuildInputs = call.mwIns + call.scriptIns
    /\ Len(transaction.hashes) = call.mwIns + call.scriptIns

C18_InputCount ==
  /\ C18_CountOnly
  /\ (BuildCalled /\ hist.clientCalls >= 1 /\ Len(hist.utxos) # call.mwIns)
       => ~BuildReturnedTx
  /\ (BuildCalled /\ hist.clientCalls = 2
         /\ Len(hist.contractUtxos) # call.scriptIns)
       => ~BuildReturnedTx
  /\ (BuildCalled
         /\ Len(hist.funded) < Len(hist.utxos) + Len(hist.contractUtxos))
       => ~BuildReturnedTx
  /\ (BuildCalled /\ call.scriptIns > 0 /\ ~call.contract) => ~BuildReturnedTx

\* What Build returned as its error; "nil" when it returned a transaction.
BuildErr == IF pc = "done" THEN result.err ELSE "nil"

\* total < value + fee over the integers: the total is small, the value is
\* any int64.
BelowRequired == Less64(Int64Of(BuildTotal - BuilderFee), call.value)

PaymentOutputs ==
  SelectSeq(transaction.msgTx.TxOut, LAMBDA o : o.PkScript = "dest")

\* C19: once the inputs are funded and counted, Build fails with the
\* insufficient-balance error exactly when their total is below value + fee;
\* a returned transaction has a total of at least value + fee and, when the
\* value is positive, exactly one payment output, of exactly the value.
C19_BuildBalance ==
  BuildCalled =>
    /\ BuildErr = "ErrInsufficientBalance" => BelowRequired
    /\ (BelowRequired
          /\ BuildErr \notin {"ErrUnsupportedNetwork", "ErrClient",
                               "ErrInsufficientUtxos", "ErrUtxosSpent"})
         => BuildErr = "ErrInsufficientBalance"
    /\ BuildReturnedTx =>
         /\ ~BelowRequired
         /\ IF Less64(Int64Of(0), call.value)
              THEN /\ PaymentOutputs = <<[Value |-> call.value, PkScript |-> "dest"]>>
                   /\ transaction.msgTx.TxOut[1].PkScript = "dest"
              ELSE PaymentOutputs = <<>>

\* The int64 lies within the model's integers.
IsSmall(x) ==
  \/ x[3] = 0 /\ x[4] = 0 /\ x[2] < Word \div 2
  \/ x[3] = Word - 1 /\ x[4] = Word - 1 /\ x[2] >= Word \div 2

RECURSIVE SumOutputs(_)
SumOutputs(outs) ==
  IF Len(outs) = 0 THEN 0
  ELSE FromInt64(outs[1].Value) + SumOutputs(Tail(outs))

\* C20: in every transaction Build returns the funded amounts equal the
\* output values plus the builder's fee of 10000, also when no change output
\* is added.
C20_BuildConservation ==
  BuildReturnedTx =>
    /\ \A k \in 1..Len(transaction.msgTx.TxOut) :
         IsSmall(transaction.msgTx.TxOut[k].Value)
    /\ BuildTotal = SumOutputs(transaction.msgTx.TxOut) + BuilderFee

\* C21: every output of a transaction Build returns has a value of at least
\* the dust threshold of 600: a payment below dust is rejected, and a change
\* output is added only when it exceeds dust.
C21_BuildNoDust ==
  BuildReturnedTx =>
    \A k \in 1..Len(transaction.msgTx.TxOut) :
      ~Less64(transaction.msgTx.TxOut[k].Value, Int64Of(BuilderDust))

\* The script <nonce> DROP DUP HASH160 <masterPubKeyHash> EQUALVERIFY CHECKSIG.
Push(data) == [op |-> PushOp(data.len), data |-> data]
Op(name) == [op |-> name, data |-> NoData]
ExpectedSlaveScript(mpkh, nonce) ==
  <<Push(nonce), Op("OP_DROP"), Op("OP_DUP"), Op("OP_HASH160"), Push(mpkh),
    Op("OP_EQUALVERIFY"), Op("OP_CHECKSIG")>>

\* Two derivations of the same kind from the same pair return the same.
C22_Deterministic ==
  \A a, b \in 1..Len(slave) :
    (slave[a].op = slave[b].op /\ slave[a].mpkh = slave[b].mpkh
       /\ slave[a].nonce = slave[b].nonce)
      => slave[a] = slave[b]

\* C22: for every pair (masterPubKeyHash, nonce) two derivations return the
\* same; SlaveScript returns the script <nonce> DROP DUP HASH160
\* <masterPubKeyHash> EQUALVERIFY CHECKSIG and SlaveAddress the script-hash
\* address of that script on the client's network.
C22_SlaveDerivation ==
  /\ C22_Deterministic
  /\ \A a \in 1..Len(slave) :
       LET d == slave[a]
           script == ExpectedSlaveScript(d.mpkh, d.nonce)
       IN /\ d.err = "nil"
          /\ d.op = "SlaveScript" => d.script = script
          /\ d.op = "SlaveAddress" =>
               d.addr = [kind |-> "scripthash", hash160 |-> script,
                         netID |-> ScriptHashAddrID(network)]

\* C23: SerializePublicKey gives the compressed key on mainnet, the
\* uncompressed key on testnet3 and the unsupported-network error on every
\* other network, where SendTransaction fails before it queries the chain.
C23_UnsupportedNetwork ==
  /\ network = "mainnet" =>
       SerializePublicKey(network) = [err |-> "nil", key |-> "compressed"]
  /\ network = "testnet3" =>
       SerializePublicKey(network) = [err |-> "nil", key |-> "uncompressed"]
  /\ network \notin {"mainnet", "testnet3"} =>
       /\ SerializePublicKey(network).err = "ErrUnsupportedNetwork"
       /\ call.op = "SendTransaction" =>
            /\ hist.clientCalls = 0
            /\ pc = "done" => result.err # "nil"

\* Input k of the transaction spends a UTXO of the funding address, and the
\* value recorded for it is that UTXO's amount.
Recorded(k) ==
  LET out == msgTx.TxIn[k].PreviousOutPoint
  IN /\ k <= Len(receiveValues)
     /\ out \in 1..Len(hist.utxos)
     /\ receiveValues[k] = hist.utxos[out].Amount

\* C24: after fund or fundAll receiveValues holds one entry per input of the
\* transaction, in input order, each the amount of the UTXO the input spends;
\* verify has then run the script check once for every input.
C24_VerifyEveryInput ==
  /\ StageDone("fund") =>
       /\ Len(receiveValues) = Len(msgTx.TxIn)
       /\ \A k \in 1..Len(msgTx.TxIn) : Recorded(k)
  /\ StageDone("verify") => hist.verifies = Len(msgTx.TxIn)

\* Without an input of the pre-condition's own the entries match the inputs.
C24_FundedOnly ==
  call.preCond.ins = 0 => C24_VerifyEveryInput

\* Build or BuildOmni returned a transaction.
BuilderReturnedTx ==
  call.op \in {"Build", "BuildOmni"} /\ pc \in {"built", "injected"}

\* The hash of input k (from 1) itself: computed with the input's own index
\* and the primary locking script up to mwIns, the contract past it.
OwnHash(k) ==
  [index |-> k - 1,
   subScript |-> IF k <= transaction.mwIns
                   THEN hist.utxos[1].ScriptPubKey
                   ELSE ContractScript(transaction.contract)]

\* C25: in every transaction Build or BuildOmni returns, entry i of Hashes is
\* the signature hash of input i itself, so that InjectSigs pairs each
\* signature with the hash of its own input.
C25_HashOrder ==
  BuilderReturnedTx =>
    /\ Len(transaction.hashes) = Len(transaction.msgTx.TxIn)
    /\ \A k \in 1..Len(transaction.hashes) : transaction.hashes[k] = OwnHash(k)

\* The transactions of Build alone.
C25_BuildOnly ==
  BuildReturnedTx =>
    \A k \in 1..Len(transaction.hashes) : transaction.hashes[k] = OwnHash(k)

\* The tiers by speed.
SpeedRank(txSpeed) ==
  CASE txSpeed = "Slow" -> 1
    [] txSpeed = "Standard" -> 2
    [] txSpeed = "Fast" -> 3
    [] OTHER -> 0

\* C26: on the same oracle answer the rate of a faster tier is at least the
\* rate of a slower one, Fast gets the oracle's fastestFee and Slow its
\* hourFee, and the Nil tier gets an error.
C26_RateMonotone ==
  /\ \A a, b \in 1..Len(hist.rates) :
       LET x == hist.rates[a]
           y == hist.rates[b]
       IN (x.oracle.ok /\ x.oracle = y.oracle
             /\ SpeedRank(y.txSpeed) > 0
             /\ SpeedRank(x.txSpeed) >= SpeedRank(y.txSpeed))
            => x.rate >= y.rate
  /\ \A a \in 1..Len(hist.rates) :
       LET x == hist.rates[a]
       IN /\ (x.oracle.ok /\ x.txSpeed = "Fast") => x.rate = x.oracle.fastestFee
          /\ (x.oracle.ok /\ x.txSpeed = "Slow") => x.rate = x.oracle.hourFee
          /\ x.txSpeed = "Nil" => x.err # "nil"

\* C27: Submit hands a transaction to PublishTransaction only when InjectSigs
\* has given every input a signature script.
C27_SubmitSigned ==
  (pc = "submitted" /\ hist.publishCalls > 0) =>
    \A k \in 1..Len(transaction.msgTx.TxIn) :
      transaction.msgTx.TxIn[k].SignatureScript # <<>>

\* C28: with a number of signatures other than the number of inputs
\* InjectSigs returns an error and leaves every signature script as it was;
\* it neither returns nil with some inputs unsigned nor indexes past the
\* inputs.
C28_InjectSigsCount ==
  (pc = "injected" /\ hist.sigs # Len(transaction.msgTx.TxIn)) =>
    /\ result.status = "returned"
    /\ result.err # "nil"
    /\ \A k \in 1..Len(transaction.msgTx.TxIn) :
         transaction.msgTx.TxIn[k].SignatureScript = <<>>

\* Every UTXO at the funding address carries the same locking script.
SameScripts ==
  \A a, b \in 1..Len(chain) : chain[a].ScriptPubKey = chain[b].ScriptPubKey

\* The change output fund appends is at least MaxBitcoinFee.
C29_ChangeCoversFee ==
  (StageDone("fund") /\ pc = "estimate") =>
    msgTx.TxOut[Len(msgTx.TxOut)].Value >= MaxBitcoinFee

\* C29: with one locking script at the funding address fund never fails with
\* ErrMismatchedPubKeys and never appends a change output below
\* MaxBitcoinFee, also when the UTXO set changes between the balance query
\* and the UTXO query.
C29_FundRace ==
  SameScripts =>
    /\ result.err # "ErrMismatchedPubKeys"
    /\ C29_ChangeCoversFee

\* What backoff has returned, once it has.
BackoffReturned == call.op = "PublishTransaction" /\ pc = "done"

\* A round in which f failed: the transaction was posted once more, the
\* sleep was taken and the next wait is longer.
C30_FailedRound ==
  (pc = "backoff" /\ pc' = "backoff" /\ hist' # hist) =>
    /\ hist'.publishCalls = hist.publishCalls + 1
    /\ hist'.attempts[Len(hist'.attempts)] # "nil"
    /\ hist'.clock = hist.clock + duration
    /\ duration' > duration

\* backoff returns nil after an f that returned nil, and ErrTimedOut when the
\* context was done; it returns nothing else, and every attempt before the
\* last one failed.
C30_Returns ==
  /\ BackoffReturned =>
       /\ result.err \in {"nil", "ErrTimedOut"}
       /\ result.err = "nil" =>
            /\ Len(hist.attempts) > 0
            /\ hist.attempts[Len(hist.attempts)] = "nil"
       /\ result.err = "ErrTimedOut" =>
            /\ ctxDone
            /\ \A k \in 1..Len(hist.attempts) : hist.attempts[k] # "nil"
       /\ (~ctxDone /\ \A k \in 1..Len(hist.attempts) : hist.attempts[k] # "nil")
            => FALSE
  /\ pc = "backoff" =>
       /\ \A k \in 1..Len(hist.attempts) : hist.attempts[k] # "nil"
       /\ hist.publishCalls = Len(hist.attempts)
       /\ Len(hist.waits) = Len(hist.attempts)
       /\ \A k \in 1..(Len(hist.waits) - 1) : hist.waits[k] < hist.waits[k + 1]

\* C30: backoff calls f again and again, with a growing wait, until f
\* returns nil (it returns nil) or the context is seen done before an attempt
\* (it returns ErrTimedOut); it never returns f's error, so a rejected
\* transaction is posted again until the context is cancelled, and without
\* cancellation and with an f that always fails backoff does not return.
C30_Backoff == []C30_Returns /\ [][C30_FailedRound]_vars

\* f was rejected three times, then the context was cancelled and backoff
\* returned ErrTimedOut.
C30_Witness ==
  /\ BackoffReturned
  /\ result.err = "ErrTimedOut"
  /\ hist.attempts = <<"ErrBitcoinSubmitTx", "ErrBitcoinSubmitTx", "ErrBitcoinSubmitTx">>
  /\ hist.waits = <<1000, 1600, 2560>>
====
